---------------------------- MODULE Spec2Model ----------------------------
(***************************************************************************)
(* A model of lab_ref: reference ranges of laboratory tests, resolved by   *)
(* sex and age and used to classify measured values (lab_ref/models.py,    *)
(* lab_ref/utils.py).                                                      *)
(*                                                                         *)
(* Optional Python values (age, value: Optional[float]) are sequences of   *)
(* length 0 (None) or 1.  An absent sex (None or "") is the string NoSex.  *)
(* The unit of a range is carried along by the code and never inspected;   *)
(* it is left out of the records.                                          *)
(***************************************************************************)
EXTENDS Integers, Sequences, FiniteSets, TLC

\* ------------------------------------------------------------------ bounds
MaxAge == 2
MaxVal == 1
MaxEntries == 2
MaxBiomaterials == 2

Ages == 0..MaxAge
\* measured values: below, on, between and above the bounds of every range
Values == (0 - 1)..(MaxVal + 2)

NoSex == "<none>"
SexKeys == {"all", "male", "female"}
Sexes == SexKeys \cup {NoSex}
OptAges == {<<>>} \cup {<<a>> : a \in Ages}

\* the dictionary add_simple_reference stores; the ranges drawn are
\* [lo, lo + 2], so that a value can lie strictly inside one
SimpleRange == {[min |-> lo, max |-> lo + 2] : lo \in 0..(MaxVal - 1)}
\* AgeRange(age_min, age_max, min_value, max_value): an age band; the bands
\* drawn are one year wide, [a, a + 1), so the age MaxAge lies in no band
AgeRange == {[age_min |-> a, age_max |-> a + 1, min |-> r.min, max |-> r.max] :
                a \in 0..(MaxAge - 1), r \in SimpleRange}

VARIABLES
    api,          \* which part of the library the client drives
    age_ranges,   \* Reference._age_ranges: sex key -> list of AgeRange
    simple_refs,  \* Reference._simple_refs: sex key -> <<>> or <<range>>
    doc,          \* the JSON value of the looked-up test in the reference
                  \* file, as json.load returns it
    study,        \* LabStudyManager._studies: the definition of the study
                  \* lab_studies.json declares
    catalog,      \* the reference files: biomaterial -> test -> JSON value
    managers,     \* LabStudyManager._biomaterial_managers: the biomaterials
                  \* whose BiomaterialManager is cached
    result,       \* the StudyResult the client holds, NoResult before one
                  \* is created
    raw,          \* a whole reference file as json.load returns it
    manager,      \* the BiomaterialManager / ReferenceManager constructed
                  \* from the file, NoManager before one is constructed
    env_dir,        \* os.environ["LAB_REF_DIR"], NoDir when unset
    references_dir, \* LabStudyManager.references_dir, NoDir for None
    studies_dir,    \* the directory LabStudyManager._studies was read from
    manager_dirs,   \* the directory each cached BiomaterialManager was read
                    \* from, NoDir for a biomaterial that is not cached
    last          \* the call the client has just made and its outcome; NoCall
                  \* while the client is between calls (the library is
                  \* synchronous: one call at a time)

refVars == <<age_ranges, simple_refs>>
fileVars == <<doc>>
studyVars == <<study, catalog, managers, result>>
loadVars == <<raw, manager>>
dirVars == <<env_dir, references_dir, studies_dir, manager_dirs>>
vars == <<api, refVars, fileVars, studyVars, loadVars, dirVars, last>>

NoCall == [op |-> "none"]

\* a Reference as Reference.__init__ leaves it
EmptyRef == [k \in SexKeys |-> <<>>]

\* the study lab_studies.json declares, and a name it does not declare
StudyName == "blood_test"
StudyNames == {StudyName, "unknown_study"}
TestNames == {"hemoglobin", "ph"}
Biomaterials == {"capillary_blood", "venous_blood"}
\* biomaterial_type=None
NoBiomaterial == "<none>"
\* the values a client submits for a test of a study
StudyValues == 0..1
\* the patients a StudyResult is created for: sex and age unknown, or a
\* male of age 0
Patients == {[sex |-> NoSex, age |-> <<>>], [sex |-> "male", age |-> <<0>>]}

NoResult == [exists |-> FALSE]
\* no file read, no manager constructed
NoRaw == [root |-> "none"]
NoManager == [exists |-> FALSE, tests |-> <<>>]
\* None as references_dir, LAB_REF_DIR unset
NoDir == "<none>"
\* os.path.join(os.path.dirname(__file__), "references")
DefaultDir == "lab_ref/references"
\* the directories a user keeps own reference files in
CustomDirs == {"/custom/a", "/custom/b"}
\* no BiomaterialManager cached
NoManagerDirs == [b \in Biomaterials |-> NoDir]
\* no study, no reference files
NoStudy == [tests |-> {}, biomaterials |-> <<>>, preferred |-> <<>>]
NoCatalog == [b \in Biomaterials |-> [t \in TestNames |-> [kind |-> "missing"]]]

\* the test is not a key of the reference file
Missing == [kind |-> "missing"]
\* a sex key the test's mapping does not have
Absent == [t |-> "absent"]

\* ------------------------------------------------------------ Reference
contains_age_closed(r, age) == r.age_min <= age /\ age <= r.age_max

\* AgeRange.contains_age
contains_age(r, age) == r.age_min <= age /\ age < r.age_max

\* the three-way comparison of AgeRange.check_value / Reference.check_value
classify_swapped(value, lo, hi) ==
    IF value <= lo THEN "below" ELSE IF value >= hi THEN "above" ELSE "normal"

classify(value, lo, hi) ==
    IF value < lo THEN "below" ELSE IF value > hi THEN "above" ELSE "normal"

search_order_all_last(sex) ==
    (IF sex # NoSex THEN <<sex>> ELSE <<>>) \o <<"male", "female", "all">>

\* Reference.get_reference: search_order
search_order(sex) ==
    (IF sex # NoSex THEN <<sex>> ELSE <<>>) \o <<"all", "male", "female">>

\* the inner loop over self._age_ranges[s]: index of the first band that
\* contains the age, 0 when the loop ends without a match
RECURSIVE first_band(_, _, _)
first_band(bands, age, i) ==
    IF i > Len(bands) THEN 0
    ELSE IF contains_age(bands[i], age) THEN i
    ELSE first_band(bands, age, i + 1)

NotFound == [kind |-> "ValueError"]

\* an age pass that gives up at the first sex key that has bands
RECURSIVE age_pass_stop(_, _, _, _)
age_pass_stop(ar, order, age, p) ==
    IF p > Len(order) THEN NotFound
    ELSE LET s == order[p]
             i == first_band(ar[s], age, 1)
         IN IF Len(ar[s]) > 0
            THEN IF i > 0
                 THEN [kind |-> "age", key |-> s, idx |-> i,
                       min |-> ar[s][i].min, max |-> ar[s][i].max,
                       age_min |-> ar[s][i].age_min, age_max |-> ar[s][i].age_max]
                 ELSE NotFound
            ELSE age_pass_stop(ar, order, age, p + 1)

\* the outer loop of the age pass over search_order, from position p
RECURSIVE age_pass(_, _, _, _)
age_pass(ar, order, age, p) ==
    IF p > Len(order) THEN NotFound
    ELSE LET s == order[p]
             i == first_band(ar[s], age, 1)
         IN IF Len(ar[s]) > 0 /\ i > 0
            THEN [kind |-> "age", key |-> s, idx |-> i,
                  min |-> ar[s][i].min, max |-> ar[s][i].max,
                  age_min |-> ar[s][i].age_min, age_max |-> ar[s][i].age_max]
            ELSE age_pass(ar, order, age, p + 1)

\* a simple pass that looks at the first key of the order only
simple_pass_first_only(sr, order, p) ==
    IF p > Len(order) THEN NotFound
    ELSE LET s == order[p]
         IN IF Len(sr[s]) > 0
            THEN [kind |-> "simple", key |-> s,
                  min |-> sr[s][1].min, max |-> sr[s][1].max]
            ELSE NotFound

\* the loop of the simple pass over search_order, from position p
RECURSIVE simple_pass(_, _, _)
simple_pass(sr, order, p) ==
    IF p > Len(order) THEN NotFound
    ELSE LET s == order[p]
         IN IF Len(sr[s]) > 0
            THEN [kind |-> "simple", key |-> s,
                  min |-> sr[s][1].min, max |-> sr[s][1].max]
            ELSE simple_pass(sr, order, p + 1)

\* a resolution that prefers the simple range of the requested sex
get_reference_simple_first(ar, sr, sex, age) ==
    LET order == search_order(sex)
        banded == IF Len(age) > 0 THEN age_pass(ar, order, age[1], 1)
                  ELSE NotFound
    IN IF Len(sr[order[1]]) > 0 THEN simple_pass(sr, order, 1)
       ELSE IF banded.kind = "age" THEN banded ELSE simple_pass(sr, order, 1)

\* Reference.get_reference(sex, age)
get_reference(ar, sr, sex, age) ==
    LET order == search_order(sex)
        banded == IF Len(age) > 0 THEN age_pass(ar, order, age[1], 1)
                  ELSE NotFound
    IN IF banded.kind = "age" THEN banded ELSE simple_pass(sr, order, 1)

\* Reference.check_value(value, sex, age): the status, or the error of
\* get_reference
check_value(ar, sr, value, sex, age) ==
    LET ref == get_reference(ar, sr, sex, age)
    IN IF ref.kind = "ValueError" THEN "ValueError"
       ELSE classify(value, ref.min, ref.max)

\* number of ranges the Reference holds
Entries(ar, sr) ==
    LET n(k) == Len(ar[k]) + Len(sr[k])
    IN n("all") + n("male") + n("female")

\* Reference.__init__
InitRef ==
    /\ api = "oop"
    /\ age_ranges = EmptyRef
    /\ simple_refs = EmptyRef
    /\ doc = Missing
    /\ study = NoStudy
    /\ catalog = NoCatalog
    /\ managers = {}
    /\ result = NoResult
    /\ raw = NoRaw
    /\ manager = NoManager
    /\ env_dir = NoDir
    /\ references_dir = NoDir
    /\ studies_dir = NoDir
    /\ manager_dirs = NoManagerDirs
    /\ last = NoCall

\* Reference.add_age_range(sex, age_range)
AddAgeRange ==
    \E sex \in SexKeys, r \in AgeRange :
        /\ last = NoCall
        /\ Entries(age_ranges, simple_refs) < MaxEntries
        /\ age_ranges' = [age_ranges EXCEPT ![sex] = Append(@, r)]
        /\ last' = NoCall
        /\ UNCHANGED <<api, loadVars, dirVars, simple_refs, fileVars, studyVars>>

\* Reference.add_simple_reference(sex, min_val, max_val, unit)
AddSimpleReference ==
    \E sex \in SexKeys, r \in SimpleRange :
        /\ last = NoCall
        /\ Len(simple_refs[sex]) > 0 \/ Entries(age_ranges, simple_refs) < MaxEntries
        /\ simple_refs' = [simple_refs EXCEPT ![sex] = <<r>>]
        /\ last' = NoCall
        /\ UNCHANGED <<api, loadVars, dirVars, age_ranges, fileVars, studyVars>>

\* a call of Reference.get_reference(sex, age)
GetReference ==
    \E sex \in Sexes, age \in OptAges :
        /\ last = NoCall
        /\ last' = [op |-> "get_reference", sex |-> sex, age |-> age,
                    ref |-> get_reference(age_ranges, simple_refs, sex, age)]
        /\ UNCHANGED <<api, loadVars, dirVars, refVars, fileVars, studyVars>>

\* a call of Reference.check_value(value, sex, age)
CheckValue ==
    \E value \in Values, sex \in Sexes, age \in OptAges :
        /\ last = NoCall
        /\ last' = [op |-> "check_value", sex |-> sex, age |-> age,
                    value |-> value,
                    ref |-> get_reference(age_ranges, simple_refs, sex, age),
                    status |-> check_value(age_ranges, simple_refs, value, sex, age)]
        /\ UNCHANGED <<api, loadVars, dirVars, refVars, fileVars, studyVars>>

\* a call of AgeRange.check_value(value) on a band the Reference holds
AgeRangeCheckValue ==
    \E k \in SexKeys, value \in Values :
        \E i \in 1..Len(age_ranges[k]) :
            /\ last = NoCall
            /\ last' = [op |-> "AgeRange.check_value", value |-> value,
                        ref |-> [kind |-> "age", key |-> k, idx |-> i,
                                 min |-> age_ranges[k][i].min,
                                 max |-> age_ranges[k][i].max,
                                 age_min |-> age_ranges[k][i].age_min,
                                 age_max |-> age_ranges[k][i].age_max],
                        status |-> classify(value, age_ranges[k][i].min,
                                            age_ranges[k][i].max)]
            /\ UNCHANGED <<api, loadVars, dirVars, refVars, fileVars, studyVars>>

\* the client takes the result of the call and goes on
Return ==
    /\ last # NoCall
    /\ last' = NoCall
    /\ UNCHANGED <<api, loadVars, dirVars, refVars, fileVars, studyVars>>

NextRef ==
    \/ AddAgeRange
    \/ AddSimpleReference
    \/ GetReference
    \/ CheckValue
    \/ AgeRangeCheckValue
    \/ Return

SpecRef == InitRef /\ [][NextRef]_vars


\* ------------------------------------------------- functional API (utils)
\* number of ranges the test's JSON value holds
DocEntries(d) ==
    LET n(e) == IF e.t = "list" THEN Len(e.bands)
                ELSE IF e.t = "dict" THEN 1 ELSE 0
    IN IF d.kind = "persex"
       THEN n(d.by["all"]) + n(d.by["male"]) + n(d.by["female"])
       ELSE IF d.kind = "list" THEN Len(d.bands)
       ELSE IF d.kind = "dict" THEN 1 ELSE 0

\* utils.get_reference, line 187: "if not ref" (None, {} or [])
falsy(d) ==
    \/ d.kind = "missing"
    \/ d.kind = "persex" /\ \A k \in SexKeys : d.by[k] = Absent
    \/ d.kind = "list" /\ Len(d.bands) = 0

\* utils.get_reference, lines 189-194: the value the search goes on with;
\* a direct list or range has no sex keys, and neither a sex nor "all" is
\* one of the keys min, max, unit
sex_refs(d, sex) ==
    IF d.kind = "persex" /\ sex # NoSex /\ d.by[sex] # Absent
    THEN [t |-> d.by[sex].t, key |-> sex, v |-> d.by[sex]]
    ELSE IF d.kind = "persex" /\ d.by["all"] # Absent
    THEN [t |-> d.by["all"].t, key |-> "all", v |-> d.by["all"]]
    ELSE IF d.kind = "persex" THEN [t |-> "mapping", key |-> "", v |-> d]
    ELSE [t |-> d.kind, key |-> "", v |-> d]

\* the ValueError of validate_references_structure
InvalidStructure == [kind |-> "ValueError", invalid |-> TRUE]

\* load_references, line 152: validate_references_structure on a file
\* whose test has the value d.  The bands and ranges of the model have all
\* their keys; a test that is directly a range is read as a mapping of sex
\* keys whose values (the numbers of min and max) are neither list nor
\* mapping, and the file is refused.
valid_doc(d) == d.kind # "dict"

\* utils.get_reference(test_type, test_name, sex, age) on the test's value
utils_get_reference(d, sex, age) ==
    IF ~valid_doc(d) THEN InvalidStructure
    ELSE IF falsy(d) THEN NotFound
    ELSE LET sr == sex_refs(d, sex)
         IN IF sr.t = "list" /\ Len(age) > 0
            THEN LET i == first_band(sr.v.bands, age[1], 1)
                 IN IF i > 0
                    THEN [kind |-> "age", key |-> sr.key, idx |-> i,
                          min |-> sr.v.bands[i].min, max |-> sr.v.bands[i].max,
                          age_min |-> sr.v.bands[i].age_min,
                          age_max |-> sr.v.bands[i].age_max]
                    ELSE NotFound
            ELSE IF sr.t = "dict"
            THEN [kind |-> "simple", key |-> sr.key,
                  min |-> sr.v.min, max |-> sr.v.max]
            ELSE IF sr.t = "mapping" THEN [kind |-> "mapping"]
            ELSE NotFound

\* utils.check_value(test_type, test_name, value, sex, age) with a single
\* test name: a mapping of sex keys has no key "min" (KeyError)
utils_check_value(d, value, sex, age) ==
    LET ref == utils_get_reference(d, sex, age)
    IN IF ref.kind = "ValueError" THEN "ValueError"
       ELSE IF ref.kind = "mapping" THEN "KeyError"
       ELSE classify(value, ref.min, ref.max)

\* the reference file as the functional API finds it
InitFile ==
    /\ api = "functional"
    /\ age_ranges = EmptyRef
    /\ simple_refs = EmptyRef
    /\ doc \in {Missing, [kind |-> "persex", by |-> [k \in SexKeys |-> Absent]],
                [kind |-> "list", bands |-> <<>>]}
               \cup {[kind |-> "dict", min |-> r.min, max |-> r.max] : r \in SimpleRange}
    /\ study = NoStudy
    /\ catalog = NoCatalog
    /\ managers = {}
    /\ result = NoResult
    /\ raw = NoRaw
    /\ manager = NoManager
    /\ env_dir = NoDir
    /\ references_dir = NoDir
    /\ studies_dir = NoDir
    /\ manager_dirs = NoManagerDirs
    /\ last = NoCall

\* load_references opens and parses the file on every call, so the file a
\* user keeps in the references directory can change between two calls:
\* the file gains an age band under a sex key of the test
FileAddBand ==
    \E k \in SexKeys, r \in AgeRange :
        /\ last = NoCall
        /\ doc.kind = "persex"
        /\ doc.by[k].t \in {"absent", "list"}
        /\ DocEntries(doc) < MaxEntries
        /\ doc' = [doc EXCEPT !.by[k] =
                      [t |-> "list",
                       bands |-> IF @.t = "list" THEN Append(@.bands, r) ELSE <<r>>]]
        /\ UNCHANGED <<api, loadVars, dirVars, refVars, studyVars, last>>

\* the file gains or replaces a simple range under a sex key of the test
FileSetSimple ==
    \E k \in SexKeys, r \in SimpleRange :
        /\ last = NoCall
        /\ doc.kind = "persex"
        /\ \/ doc.by[k].t = "dict"
           \/ doc.by[k].t = "absent" /\ DocEntries(doc) < MaxEntries
        /\ doc' = [doc EXCEPT !.by[k] = [t |-> "dict", min |-> r.min, max |-> r.max]]
        /\ UNCHANGED <<api, loadVars, dirVars, refVars, studyVars, last>>

\* the file gains an age band in a test that is directly a list of bands
FileAddDirectBand ==
    \E r \in AgeRange :
        /\ last = NoCall
        /\ doc.kind = "list"
        /\ DocEntries(doc) < MaxEntries
        /\ doc' = [doc EXCEPT !.bands = Append(@, r)]
        /\ UNCHANGED <<api, loadVars, dirVars, refVars, studyVars, last>>

\* Reference.from_dict(name, data) on a per-sex mapping: a list value gives
\* the age bands of its key, a mapping with "min" the simple range
from_dict(d) ==
    [ar |-> [k \in SexKeys |-> IF d.by[k].t = "list" THEN d.by[k].bands ELSE <<>>],
     sr |-> [k \in SexKeys |->
                IF d.by[k].t = "dict"
                THEN <<[min |-> d.by[k].min, max |-> d.by[k].max]>> ELSE <<>>]]

\* ReferenceManager(test_type).create_test(name, value, sex, age).status on
\* a file whose test has the value d: the constructor validates the file
\* and builds a Reference from every test (a test that is directly a list
\* has no .get), create_test looks the name up, and status classifies the
\* value by Reference.check_value
create_test_status(d, value, sex, age) ==
    IF ~valid_doc(d) THEN "ValueError"
    ELSE IF d.kind = "list" THEN "AttributeError"
    ELSE IF d.kind = "missing" THEN "ValueError"
    ELSE check_value(from_dict(d).ar, from_dict(d).sr, value, sex, age)

\* a call of utils.get_reference(test_type, test_name, sex, age)
UtilsGetReference ==
    \E sex \in Sexes, age \in OptAges :
        /\ last = NoCall
        /\ last' = [op |-> "utils.get_reference", sex |-> sex, age |-> age,
                    ref |-> utils_get_reference(doc, sex, age)]
        /\ UNCHANGED <<api, loadVars, dirVars, refVars, fileVars, studyVars>>

\* a call of utils.check_value(test_type, test_name, value, sex, age)
UtilsCheckValue ==
    \E value \in Values, sex \in Sexes, age \in OptAges :
        /\ last = NoCall
        /\ last' = [op |-> "utils.check_value", sex |-> sex, age |-> age,
                    value |-> value,
                    ref |-> utils_get_reference(doc, sex, age),
                    status |-> utils_check_value(doc, value, sex, age)]
        /\ UNCHANGED <<api, loadVars, dirVars, refVars, fileVars, studyVars>>

\* a call of ReferenceManager(test_type).create_test(...).status on the
\* same file
CreateTestStatus ==
    \E value \in Values, sex \in Sexes, age \in OptAges :
        /\ last = NoCall
        /\ last' = [op |-> "create_test.status", sex |-> sex, age |-> age,
                    value |-> value,
                    status |-> create_test_status(doc, value, sex, age)]
        /\ UNCHANGED <<api, loadVars, dirVars, refVars, fileVars, studyVars>>

NextFile ==
    \/ FileAddBand
    \/ FileSetSimple
    \/ FileAddDirectBand
    \/ UtilsGetReference
    \/ UtilsCheckValue
    \/ CreateTestStatus
    \/ Return

SpecFile == InitFile /\ [][NextFile]_vars

\* the in-memory Reference and the functional API over the file hold no
\* common state: a run drives one of them
InitApi == InitRef \/ InitFile

NextApi ==
    \/ api = "oop" /\ NextRef
    \/ api = "functional" /\ NextFile

SpecApi == InitApi /\ [][NextApi]_vars

\* ------------------------------------------- LabStudyManager, StudyResult
\* Python's "x in list"
In(seq, x) == \E i \in 1..Len(seq) : seq[i] = x

\* lists of at most n biomaterials
RECURSIVE BiomaterialLists(_)
BiomaterialLists(n) ==
    IF n = 0 THEN {<<>>}
    ELSE BiomaterialLists(n - 1)
         \cup {Append(l, b) : l \in {m \in BiomaterialLists(n - 1) : Len(m) = n - 1},
                              b \in Biomaterials}

\* the study definitions lab_studies.json can give
StudyDefs ==
    [tests : SUBSET TestNames,
     biomaterials : BiomaterialLists(MaxBiomaterials),
     preferred : {<<>>} \cup {<<b>> : b \in Biomaterials}]

\* the JSON value a reference file gives a test it defines
CatalogDoc ==
    [kind |-> "persex",
     by |-> [k \in SexKeys |->
                IF k = "all" THEN [t |-> "dict", min |-> 0, max |-> 2] ELSE Absent]]

\* the JSON value of a test that has nothing but one age band for males
BandedDoc ==
    [kind |-> "persex",
     by |-> [k \in SexKeys |->
                IF k = "male"
                THEN [t |-> "list",
                      bands |-> <<[age_min |-> 0, age_max |-> 1,
                                   min |-> 0, max |-> 2]>>]
                ELSE Absent]]

\* the reference files of the biomaterials: each defines "hemoglobin", and
\* some define "ph"; the capillary file may give "hemoglobin" age bands only
Catalogs ==
    {c \in [Biomaterials -> [TestNames -> {Missing, CatalogDoc, BandedDoc}]] :
        /\ \A b \in Biomaterials : c[b]["hemoglobin"] # Missing /\ c[b]["ph"] # BandedDoc
        /\ c["venous_blood"]["hemoglobin"] = CatalogDoc}

\* a {test_name: value} dict, in insertion order
Item == [name : TestNames, value : StudyValues]
Mappings ==
    {<<>>} \cup {<<a>> : a \in Item}
           \cup {m \in {<<a, b>> : a \in Item, b \in Item} : m[1].name # m[2].name}

get_preferred_first(st) ==
    IF Len(st.biomaterials) > 0 THEN st.biomaterials[1] ELSE ""

\* LabStudyManager.get_preferred_biomaterial / utils.get_preferred_biomaterial
get_preferred_biomaterial(st) ==
    IF Len(st.preferred) > 0 THEN st.preferred[1]
    ELSE IF Len(st.biomaterials) > 0 THEN st.biomaterials[1] ELSE ""

\* a default that knows the declared preferred biomaterial only
utils_get_preferred_declared(st) ==
    IF Len(st.preferred) > 0 THEN st.preferred[1] ELSE ""

\* utils.get_preferred_biomaterial(study_name) on the study's definition
utils_get_preferred_biomaterial(st) ==
    IF Len(st.preferred) > 0 THEN st.preferred[1]
    ELSE IF Len(st.biomaterials) > 0 THEN st.biomaterials[1] ELSE ""

\* a constructor that binds whatever biomaterial it is given
StudyResult_init_unchecked(st, name, bt, sex, age) ==
    IF name # StudyName THEN [outcome |-> "StudyNotFound", result |-> NoResult]
    ELSE [outcome |-> "ok",
          result |-> [exists |-> TRUE, study_name |-> name,
                      biomaterial_type |-> bt, sex |-> sex, age |-> age,
                      tests |-> [t \in TestNames |-> <<>>]]]

\* StudyResult.__init__(study_name, biomaterial_type, sex, age, manager)
StudyResult_init(st, name, bt, sex, age) ==
    IF name # StudyName THEN [outcome |-> "StudyNotFound", result |-> NoResult]
    ELSE IF ~In(st.biomaterials, bt)
    THEN [outcome |-> "BiomaterialNotAvailable", result |-> NoResult]
    ELSE [outcome |-> "ok",
          result |-> [exists |-> TRUE, study_name |-> name,
                      biomaterial_type |-> bt, sex |-> sex, age |-> age,
                      tests |-> [t \in TestNames |-> <<>>]]]

\* a creation that binds whatever biomaterial it is given
create_study_result_unchecked(st, name, bt, sex, age) ==
    IF name # StudyName THEN [outcome |-> "StudyNotFound", result |-> NoResult]
    ELSE [outcome |-> "ok",
          result |-> [exists |-> TRUE, study_name |-> name,
                      biomaterial_type |->
                          IF bt = NoBiomaterial THEN get_preferred_biomaterial(st)
                          ELSE bt,
                      sex |-> sex, age |-> age,
                      tests |-> [t \in TestNames |-> <<>>]]]

\* LabStudyManager.create_study_result(study_name, biomaterial_type, sex, age)
create_study_result(st, name, bt, sex, age) ==
    IF name # StudyName THEN [outcome |-> "StudyNotFound", result |-> NoResult]
    ELSE IF bt = NoBiomaterial
    THEN StudyResult_init(st, name, get_preferred_biomaterial(st), sex, age)
    ELSE IF ~In(st.biomaterials, bt)
    THEN [outcome |-> "BiomaterialNotAvailable", result |-> NoResult]
    ELSE StudyResult_init(st, name, bt, sex, age)

get_references_dir_env_first(rd, env) ==
    IF env # NoDir THEN env ELSE IF rd # NoDir THEN rd ELSE DefaultDir

\* utils._get_references_dir(references_dir): the explicit directory, else
\* LAB_REF_DIR, else the directory of the package
get_references_dir(rd, env) ==
    IF rd # NoDir THEN rd ELSE IF env # NoDir THEN env ELSE DefaultDir

\* LabStudyManager._get_biomaterial_manager for the biomaterials mgrs: a
\* biomaterial that is not cached gets a BiomaterialManager(biomaterial_type,
\* self.references_dir), which reads the directory that resolves now
cached_from(dirs, mgrs, rd, env) ==
    [b \in Biomaterials |->
        IF b \in mgrs /\ dirs[b] = NoDir THEN get_references_dir(rd, env)
        ELSE dirs[b]]

\* a store that keeps the Test a name already maps to
set_item_keep_first(tests, name, t) ==
    IF tests[name] # <<>> THEN tests ELSE [tests EXCEPT ![name] = <<t>>]

\* self._tests[test_name] = test
set_item(tests, name, t) == [tests EXCEPT ![name] = <<t>>]

\* an add_result that accepts every test the catalog defines
add_result_by_catalog(st, cat, res, mgrs, name, value) ==
    LET loaded == mgrs \cup {res.biomaterial_type}
    IN IF cat[res.biomaterial_type][name].kind = "missing"
       THEN [outcome |-> IF name \notin st.tests THEN "TestNotInStudy"
                         ELSE "TestNotFound",
             result |-> res, managers |-> mgrs]
       ELSE [outcome |-> "ok",
             result |-> [res EXCEPT !.tests[name] =
                            <<[value |-> value, sex |-> res.sex, age |-> res.age]>>],
             managers |-> loaded]

\* an add_result that stores the Test before it checks the name
add_result_store_first(st, cat, res, mgrs, name, value) ==
    LET stored == [res EXCEPT !.tests[name] =
                      <<[value |-> value, sex |-> res.sex, age |-> res.age]>>]
    IN IF name \notin st.tests
       THEN [outcome |-> "TestNotInStudy", result |-> stored, managers |-> mgrs]
       ELSE IF cat[res.biomaterial_type][name].kind = "missing"
       THEN [outcome |-> "TestNotFound", result |-> stored,
             managers |-> mgrs \cup {res.biomaterial_type}]
       ELSE [outcome |-> "ok", result |-> stored,
             managers |-> mgrs \cup {res.biomaterial_type}]

\* StudyResult.add_result(test_name, value); _get_biomaterial_manager caches
\* the BiomaterialManager of the bound biomaterial
add_result(st, cat, res, mgrs, name, value) ==
    IF name \notin st.tests
    THEN [outcome |-> "TestNotInStudy", result |-> res, managers |-> mgrs]
    ELSE LET loaded == mgrs \cup {res.biomaterial_type}
         IN IF cat[res.biomaterial_type][name].kind = "missing"
            THEN [outcome |-> "TestNotFound", result |-> res, managers |-> loaded]
            ELSE [outcome |-> "ok",
                  result |-> [res EXCEPT !.tests =
                                 set_item(@, name, [value |-> value,
                                                    sex |-> res.sex,
                                                    age |-> res.age])],
                  managers |-> loaded]

\* an add_results that stores every submitted item
RECURSIVE add_results_unchecked(_, _, _, _, _, _)
add_results_unchecked(st, cat, res, mgrs, items, i) ==
    IF i > Len(items)
    THEN [outcome |-> "ok", result |-> res, managers |-> mgrs]
    ELSE add_results_unchecked(
             st, cat,
             [res EXCEPT !.tests[items[i].name] =
                 <<[value |-> items[i].value, sex |-> res.sex, age |-> res.age]>>],
             mgrs, items, i + 1)

\* StudyResult.add_results(results): add_result for each item, from item i
RECURSIVE add_results(_, _, _, _, _, _)
add_results(st, cat, res, mgrs, items, i) ==
    IF i > Len(items)
    THEN [outcome |-> "ok", result |-> res, managers |-> mgrs]
    ELSE LET r == add_result(st, cat, res, mgrs, items[i].name, items[i].value)
         IN IF r.outcome # "ok" THEN r
            ELSE add_results(st, cat, r.result, r.managers, items, i + 1)

Test_set_patient_info_overwrite(t, sex, age) ==
    [t EXCEPT !.sex = sex, !.age = age]

\* Test.set_patient_info(sex, age): None leaves the field as it is
Test_set_patient_info(t, sex, age) ==
    [t EXCEPT !.sex = IF sex # NoSex THEN sex ELSE @,
              !.age = IF Len(age) > 0 THEN age ELSE @]

\* StudyResult.set_patient_info(sex, age): the fields of the result, then
\* those of every Test it holds
set_patient_info(res, sex, age) ==
    [res EXCEPT !.sex = IF sex # NoSex THEN sex ELSE @,
                !.age = IF Len(age) > 0 THEN age ELSE @,
                !.tests = [t \in TestNames |->
                              IF @[t] = <<>> THEN <<>>
                              ELSE <<Test_set_patient_info(@[t][1], sex, age)>>]]

\* Test.status of a Test the result holds: Reference.check_value of the
\* table the bound biomaterial's manager gave it
Test_status(cat, bt, name, t) ==
    LET ref == from_dict(cat[bt][name])
    IN check_value(ref.ar, ref.sr, t.value, t.sex, t.age)

\* StudyResult.get_summary(): the loop ends with the ValueError of the first
\* Test whose status cannot be computed
get_summary(cat, res) ==
    LET held == {t \in TestNames : res.tests[t] # <<>>}
        st(t) == Test_status(cat, res.biomaterial_type, t, res.tests[t][1])
        n(v) == Cardinality({t \in held : st(t) = v})
    IN IF \E t \in held : st(t) = "ValueError"
       THEN [outcome |-> "ValueError",
             summary |-> [normal |-> 0, below |-> 0, above |-> 0, total |-> 0]]
       ELSE [outcome |-> "ok",
             summary |-> [normal |-> n("normal"), below |-> n("below"),
                          above |-> n("above"), total |-> Cardinality(held)]]

\* utils.check_study_values, lines 487-491: the statuses of the items from
\* item i on; the file of a biomaterial that is none of the reference files
\* cannot be opened
RECURSIVE check_items(_, _, _, _, _, _, _)
check_items(cat, bt, items, sex, age, i, done) ==
    IF i > Len(items) THEN [outcome |-> "ok", statuses |-> done]
    ELSE IF bt \notin Biomaterials
    THEN [outcome |-> "FileNotFoundError", statuses |-> <<>>]
    ELSE LET st == utils_check_value(cat[bt][items[i].name], items[i].value, sex, age)
         IN IF st \in {"ValueError", "KeyError"}
            THEN [outcome |-> st, statuses |-> <<>>]
            ELSE check_items(cat, bt, items, sex, age, i + 1,
                             Append(done, [name |-> items[i].name, status |-> st]))

\* utils.check_study_values(study_name, test_values, biomaterial_type, sex, age)
check_study_values(st, cat, name, items, bt, sex, age) ==
    IF name # StudyName THEN [outcome |-> "StudyNotFound", statuses |-> <<>>]
    ELSE IF \E i \in 1..Len(items) : items[i].name \notin st.tests
    THEN [outcome |-> "TestNotInStudy", statuses |-> <<>>]
    ELSE check_items(cat,
                     IF bt = NoBiomaterial THEN utils_get_preferred_biomaterial(st)
                     ELSE bt,
                     items, sex, age, 1, <<>>)

\* the values and the {test_name: value} dicts given to a batch check_value
BatchValues == {-1, 1, 3}
BatchItem == [name : TestNames, value : BatchValues]
BatchMappings ==
    {<<>>} \cup {<<a>> : a \in BatchItem}
           \cup {m \in {<<a, b>> : a \in BatchItem, b \in BatchItem} :
                    m[1].name # m[2].name}

RECURSIVE utils_check_values_skip_failed(_, _, _, _, _, _)
utils_check_values_skip_failed(file, items, sex, age, i, done) ==
    IF i > Len(items) THEN [outcome |-> "ok", statuses |-> done]
    ELSE LET st == utils_check_value(file[items[i].name], items[i].value, sex, age)
         IN utils_check_values_skip_failed(file, items, sex, age, i + 1,
                IF st \in {"ValueError", "KeyError"} THEN done
                ELSE Append(done, [name |-> items[i].name, status |-> st]))

\* utils.check_value(test_type, {test_name: value}, sex=sex, age=age), lines
\* 223-228: one check_value per item, in the order of the dict, from item i
\* on; the error of an item ends the call
RECURSIVE utils_check_values(_, _, _, _, _, _)
utils_check_values(file, items, sex, age, i, done) ==
    IF i > Len(items) THEN [outcome |-> "ok", statuses |-> done]
    ELSE LET st == utils_check_value(file[items[i].name], items[i].value, sex, age)
         IN IF st \in {"ValueError", "KeyError"}
            THEN [outcome |-> st, statuses |-> <<>>]
            ELSE utils_check_values(file, items, sex, age, i + 1,
                                    Append(done, [name |-> items[i].name,
                                                  status |-> st]))

\* LabStudyManager.__init__ over the files of the references directory
InitStudy ==
    /\ api \in {"study", "study_functional"}
    /\ age_ranges = EmptyRef
    /\ simple_refs = EmptyRef
    /\ doc = Missing
    /\ study \in StudyDefs
    /\ catalog \in Catalogs
    /\ managers = {}
    /\ result = NoResult
    /\ raw = NoRaw
    /\ manager = NoManager
    /\ env_dir = NoDir
    /\ references_dir = NoDir
    /\ studies_dir = DefaultDir
    /\ manager_dirs = NoManagerDirs
    /\ last = NoCall

\* a call of LabStudyManager.create_study_result
CreateStudyResult ==
    \E name \in StudyNames, bt \in Biomaterials \cup {NoBiomaterial},
       patient \in Patients :
        LET r == create_study_result(study, name, bt, patient.sex, patient.age)
        IN /\ last = NoCall
           /\ result' = IF r.outcome = "ok" THEN r.result ELSE result
           /\ last' = [op |-> "create_study_result", study_name |-> name,
                       biomaterial_type |-> bt, outcome |-> r.outcome,
                       before |-> result]
           /\ UNCHANGED <<api, loadVars, dirVars, refVars, fileVars, study, catalog, managers>>

\* a call of the constructor StudyResult(study_name, biomaterial_type, sex,
\* age, manager)
ConstructStudyResult ==
    \E name \in StudyNames, bt \in Biomaterials, patient \in Patients :
        LET r == StudyResult_init(study, name, bt, patient.sex, patient.age)
        IN /\ last = NoCall
           /\ result' = IF r.outcome = "ok" THEN r.result ELSE result
           /\ last' = [op |-> "StudyResult", study_name |-> name,
                       biomaterial_type |-> bt, outcome |-> r.outcome,
                       before |-> result]
           /\ UNCHANGED <<api, loadVars, dirVars, refVars, fileVars, study, catalog, managers>>

\* a call of StudyResult.set_patient_info on the result the client holds
SetPatientInfo ==
    \E patient \in Patients :
        /\ last = NoCall
        /\ result.exists
        /\ result' = set_patient_info(result, patient.sex, patient.age)
        /\ last' = [op |-> "set_patient_info", sex |-> patient.sex,
                    age |-> patient.age, outcome |-> "ok", before |-> result]
        /\ UNCHANGED <<api, loadVars, dirVars, refVars, fileVars, study, catalog, managers>>

\* a call of LabStudyManager.get_preferred_biomaterial(study_name);
\* get_study_info raises for a study the manager does not know
GetPreferredBiomaterial ==
    \E name \in StudyNames :
        /\ last = NoCall
        /\ last' = IF name # StudyName
                   THEN [op |-> "get_preferred_biomaterial", study_name |-> name,
                         outcome |-> "StudyNotFound", value |-> ""]
                   ELSE [op |-> "get_preferred_biomaterial", study_name |-> name,
                         outcome |-> "ok",
                         value |-> get_preferred_biomaterial(study)]
        /\ UNCHANGED <<api, loadVars, dirVars, refVars, fileVars, studyVars>>

\* a call of utils.get_preferred_biomaterial(study_name)
UtilsGetPreferredBiomaterial ==
    \E name \in StudyNames :
        /\ last = NoCall
        /\ last' = IF name # StudyName
                   THEN [op |-> "utils.get_preferred_biomaterial",
                         study_name |-> name,
                         outcome |-> "StudyNotFound", value |-> ""]
                   ELSE [op |-> "utils.get_preferred_biomaterial",
                         study_name |-> name, outcome |-> "ok",
                         value |-> utils_get_preferred_biomaterial(study)]
        /\ UNCHANGED <<api, loadVars, dirVars, refVars, fileVars, studyVars>>

\* a call of StudyResult.get_summary on the result the client holds
GetSummary ==
    /\ last = NoCall
    /\ result.exists
    /\ LET r == get_summary(catalog, result)
       IN last' = [op |-> "get_summary", outcome |-> r.outcome,
                   summary |-> r.summary]
    /\ UNCHANGED <<api, loadVars, dirVars, refVars, fileVars, studyVars>>

\* a call of StudyResult.add_result on the result the client holds
AddResult ==
    \E name \in TestNames, value \in StudyValues :
        /\ last = NoCall
        /\ result.exists
        /\ LET r == add_result(study, catalog, result, managers, name, value)
           IN /\ result' = r.result
              /\ managers' = r.managers
              /\ manager_dirs' = cached_from(manager_dirs, r.managers,
                                              references_dir, env_dir)
              /\ last' = [op |-> "add_result", name |-> name, value |-> value,
                          outcome |-> r.outcome, before |-> result]
        /\ UNCHANGED <<api, loadVars, refVars, fileVars, study, catalog,
                     env_dir, references_dir, studies_dir>>

\* a call of StudyResult.add_results on the result the client holds
AddResults ==
    \E items \in Mappings :
        /\ last = NoCall
        /\ result.exists
        /\ LET r == add_results(study, catalog, result, managers, items, 1)
           IN /\ result' = r.result
              /\ managers' = r.managers
              /\ manager_dirs' = cached_from(manager_dirs, r.managers,
                                              references_dir, env_dir)
              /\ last' = [op |-> "add_results", items |-> items,
                          outcome |-> r.outcome, before |-> result]
        /\ UNCHANGED <<api, loadVars, refVars, fileVars, study, catalog,
                     env_dir, references_dir, studies_dir>>

\* a call of utils.check_study_values
CheckStudyValues ==
    \E name \in StudyNames, items \in Mappings,
       bt \in Biomaterials \cup {NoBiomaterial}, patient \in Patients :
        LET r == check_study_values(study, catalog, name, items, bt,
                                    patient.sex, patient.age)
        IN /\ last = NoCall
           /\ last' = [op |-> "check_study_values", study_name |-> name,
                       items |-> items, biomaterial_type |-> bt,
                       sex |-> patient.sex, age |-> patient.age,
                       outcome |-> r.outcome, statuses |-> r.statuses]
           /\ UNCHANGED <<api, loadVars, dirVars, refVars, fileVars, studyVars>>

\* a call of utils.check_value with a {test_name: value} dict on the
\* reference file of a biomaterial
UtilsCheckValues ==
    \E bt \in Biomaterials, items \in BatchMappings, patient \in Patients :
        LET r == utils_check_values(catalog[bt], items, patient.sex,
                                    patient.age, 1, <<>>)
        IN /\ last = NoCall
           /\ last' = [op |-> "utils.check_values", test_type |-> bt,
                       items |-> items, sex |-> patient.sex, age |-> patient.age,
                       outcome |-> r.outcome, statuses |-> r.statuses]
           /\ UNCHANGED <<api, loadVars, dirVars, refVars, fileVars, studyVars>>

\* the object API of studies and the functional one hold no common state
NextStudy ==
    \/ api = "study" /\ (CreateStudyResult \/ AddResult \/ AddResults)
    \/ api = "study" /\ (ConstructStudyResult \/ SetPatientInfo \/ GetSummary)
    \/ api = "study" /\ GetPreferredBiomaterial
    \/ api = "study_functional" /\ (CheckStudyValues \/ UtilsGetPreferredBiomaterial)
    \/ api = "study_functional" /\ UtilsCheckValues
    \/ Return

SpecStudy == InitStudy /\ [][NextStudy]_vars

\* ------------------------------------- reference files: validate and load
\* JSON values are modelled by their shape.  A number or string is Scalar;
\* an age band or a simple range is the set of the keys it has (their values
\* are scalars); a list is the sequence of its elements' key sets.
BandKeys == {"min", "max", "unit", "age_min", "age_max"}
RangeKeys == {"min", "max", "unit"}
Scalar == [t |-> "scalar"]
ListOf(items) == [t |-> "list", items |-> items]
DictOf(keys) == [t |-> "dict", keys |-> keys]

\* the keys a test's mapping can have: a sex key, the two keys the
\* validator passes over, and the keys of a simple range
SubKeys == {"male", "name_ru", "test_code", "min", "max", "unit"}

\* age bands: complete, or lacking one key
Elements == {BandKeys} \cup {BandKeys \ {k} : k \in BandKeys}
BandLists ==
    {<<>>} \cup {<<e>> : e \in Elements} \cup {<<BandKeys, e>> : e \in Elements}

\* the values a sex key can have
SexValues ==
    {Absent, Scalar} \cup {ListOf(l) : l \in BandLists}
        \cup {DictOf(RangeKeys)} \cup {DictOf(RangeKeys \ {k}) : k \in RangeKeys}

\* a test whose value is a mapping
TestMappings ==
    {[t |-> "mapping",
      sub |-> [k \in SubKeys |->
                  IF k = "male" THEN m
                  ELSE IF k = "name_ru" THEN n
                  ELSE IF k = "test_code" THEN c
                  ELSE r[k]]] :
        m \in SexValues, n \in {Absent, Scalar},
        c \in {Absent, Scalar, ListOf(<<BandKeys \ {"unit"}>>)},
        r \in [RangeKeys -> {Absent, Scalar}]}

\* the values a top-level test key can have
TestRefs == {Scalar} \cup {ListOf(l) : l \in BandLists} \cup TestMappings

\* a per-sex mapping with one complete age band for males
PerSexRef ==
    [t |-> "mapping",
     sub |-> [k \in SubKeys |-> IF k = "male" THEN ListOf(<<BandKeys>>) ELSE Absent]]

\* the top-level keys of a file, in the order of the file
KeyOrders ==
    {<<"hemoglobin">>, <<"_info", "hemoglobin">>, <<"ph", "hemoglobin">>,
     <<"hemoglobin", "_info", "ph">>}

HasKey(keys, k) == \E i \in 1..Len(keys) : keys[i] = k

\* the files with the top-level keys ks: _info a mapping or not, the test
\* "hemoglobin" of any shape, the test "ph" well-formed
DocsOf(ks) ==
    {[root |-> "dict", keys |-> ks, info |-> i,
      tests |-> [n \in TestNames |-> IF n = "hemoglobin" THEN h ELSE p]] :
        i \in IF HasKey(ks, "_info") THEN {Scalar, DictOf({})} ELSE {Absent},
        h \in TestRefs,
        p \in IF HasKey(ks, "ph") THEN {PerSexRef, ListOf(<<BandKeys>>)}
              ELSE {Absent}}

\* a validator whose check of a list passes every element
all_keys_in_first(items) ==
    Len(items) = 0 \/ BandKeys \subseteq items[1]

\* all(k in r for k in (...)) for every r of a list
all_keys_in(items) == \A i \in 1..Len(items) : BandKeys \subseteq items[i]

\* validate_references_structure, lines 28-49, on one test's value.  A
\* mapping always takes the branch of line 28, which reads every key other
\* than name_ru and test_code as a sex key; the branch of lines 45-47 is
\* never taken.
valid_test(r) ==
    IF r.t = "mapping"
    THEN \A k \in SubKeys \ {"name_ru", "test_code"} :
            \/ r.sub[k] = Absent
            \/ r.sub[k].t = "list" /\ all_keys_in(r.sub[k].items)
            \/ r.sub[k].t = "dict" /\ RangeKeys \subseteq r.sub[k].keys
    ELSE IF r.t = "list" THEN all_keys_in(r.items)
    ELSE FALSE

\* validate_references_structure(data)
validate_references_structure(d) ==
    IF d.root # "dict" THEN "ValueError"
    ELSE IF HasKey(d.keys, "_info") /\ d.info.t # "dict" THEN "ValueError"
    ELSE IF \E n \in TestNames : HasKey(d.keys, n) /\ ~valid_test(d.tests[n])
    THEN "ValueError"
    ELSE "ok"

\* Reference.from_dict(name, data) on the shape of a test's value: data.get
\* needs a mapping; every key but name_ru is read; a list value is indexed
\* by the five keys of a band, a mapping with "min" by "max" and "unit"
from_dict_outcome(r) ==
    IF r.t # "mapping" THEN "AttributeError"
    ELSE IF \E k \in SubKeys \ {"name_ru"} :
               \/ r.sub[k].t = "list" /\ ~all_keys_in(r.sub[k].items)
               \/ /\ r.sub[k].t = "dict"
                  /\ "min" \in r.sub[k].keys
                  /\ ~(RangeKeys \subseteq r.sub[k].keys)
    THEN "KeyError"
    ELSE "ok"

\* the keys of the file in reverse order, without _info
test_keys_reversed(keys) ==
    LET ks == SelectSeq(keys, LAMBDA k : k # "_info")
    IN [i \in 1..Len(ks) |-> ks[Len(ks) + 1 - i]]

\* the keys of self._references after the loop of _load_references: the
\* keys of the file in order, without _info
test_keys(keys) == SelectSeq(keys, LAMBDA k : k # "_info")

\* the error of the first test, in the order of the file, that from_dict
\* fails on; "ok" when it fails on none, from key i on
RECURSIVE build_references(_, _)
build_references(d, i) ==
    IF i > Len(d.keys) THEN "ok"
    ELSE IF d.keys[i] = "_info" THEN build_references(d, i + 1)
    ELSE IF from_dict_outcome(d.tests[d.keys[i]]) # "ok"
    THEN from_dict_outcome(d.tests[d.keys[i]])
    ELSE build_references(d, i + 1)

\* BiomaterialManager.__init__ / ReferenceManager.__init__ over the file:
\* _load_references validates, then builds one Reference per test; an
\* exception leaves the caller without a manager
load_references_outcome(d) ==
    IF validate_references_structure(d) # "ok"
    THEN [outcome |-> "ValueError", manager |-> NoManager]
    ELSE IF build_references(d, 1) # "ok"
    THEN [outcome |-> build_references(d, 1), manager |-> NoManager]
    ELSE [outcome |-> "ok",
          manager |-> [exists |-> TRUE, tests |-> test_keys(d.keys)]]

\* a reference file as the user wrote it: a root that is no mapping, or a
\* mapping of _info and tests
InitLoad ==
    /\ api = "load"
    /\ age_ranges = EmptyRef
    /\ simple_refs = EmptyRef
    /\ doc = Missing
    /\ study = NoStudy
    /\ catalog = NoCatalog
    /\ managers = {}
    /\ result = NoResult
    /\ \/ raw = [root |-> "scalar"]
       \/ \E ks \in KeyOrders : raw \in DocsOf(ks)
    /\ manager = NoManager
    /\ env_dir = NoDir
    /\ references_dir = NoDir
    /\ studies_dir = NoDir
    /\ manager_dirs = NoManagerDirs
    /\ last = NoCall

\* a call of validate_references_structure on the file's content
ValidateReferencesStructure ==
    /\ last = NoCall
    /\ last' = [op |-> "validate_references_structure",
                outcome |-> validate_references_structure(raw)]
    /\ UNCHANGED <<api, refVars, fileVars, studyVars, loadVars, dirVars>>

\* the construction of a BiomaterialManager (or ReferenceManager: the same
\* code) for the file
NewManager ==
    /\ last = NoCall
    /\ LET r == load_references_outcome(raw)
       IN /\ manager' = IF r.outcome = "ok" THEN r.manager ELSE manager
          /\ last' = [op |-> "BiomaterialManager", outcome |-> r.outcome]
    /\ UNCHANGED <<api, refVars, fileVars, studyVars, raw, dirVars>>

\* a call of list_tests on the manager the client holds
ListTests ==
    /\ last = NoCall
    /\ manager.exists
    /\ last' = [op |-> "list_tests", outcome |-> "ok", value |-> manager.tests]
    /\ UNCHANGED <<api, refVars, fileVars, studyVars, loadVars, dirVars>>

\* utils.get_test_keys(test_type): the keys of the mapping load_references
\* returns, which is the parsed file once it has passed the validator
get_test_keys(d) ==
    IF validate_references_structure(d) # "ok"
    THEN [outcome |-> "ValueError", value |-> <<>>]
    ELSE [outcome |-> "ok", value |-> d.keys]

\* a call of utils.get_test_keys on the file
UtilsGetTestKeys ==
    /\ last = NoCall
    /\ last' = [op |-> "utils.get_test_keys",
                outcome |-> get_test_keys(raw).outcome,
                value |-> get_test_keys(raw).value]
    /\ UNCHANGED <<api, refVars, fileVars, studyVars, loadVars, dirVars>>

NextLoad ==
    \/ ValidateReferencesStructure
    \/ NewManager
    \/ ListTests
    \/ UtilsGetTestKeys
    \/ Return

SpecLoad == InitLoad /\ [][NextLoad]_vars


\* ------------------------------ the references directory and the cache
\* LabStudyManager(references_dir) constructed while LAB_REF_DIR is set or
\* not: _load_studies reads lab_studies.json from the directory that
\* resolves at construction
InitDirs ==
    /\ api = "dirs"
    /\ age_ranges = EmptyRef
    /\ simple_refs = EmptyRef
    /\ doc = Missing
    /\ study = NoStudy
    /\ catalog = NoCatalog
    /\ managers = {}
    /\ result = NoResult
    /\ raw = NoRaw
    /\ manager = NoManager
    /\ env_dir \in {NoDir} \cup CustomDirs
    /\ references_dir \in {NoDir} \cup CustomDirs
    /\ studies_dir = get_references_dir(references_dir, env_dir)
    /\ manager_dirs = NoManagerDirs
    /\ last = NoCall

\* utils.set_references_dir(path); the client has read
\* get_current_references_dir() before the call
SetReferencesDir ==
    \E path \in CustomDirs :
        /\ last = NoCall
        /\ env_dir' = path
        /\ last' = [op |-> "set_references_dir", path |-> path,
                    before |-> get_references_dir(NoDir, env_dir)]
        /\ UNCHANGED <<api, refVars, fileVars, studyVars, loadVars,
                       references_dir, studies_dir, manager_dirs>>

ResetReferencesDir_keeps_env ==
    /\ last.op \in {"none", "set_references_dir"}
    /\ env_dir' = env_dir
    /\ last' = [op |-> "reset_references_dir",
                after_set |-> last.op = "set_references_dir",
                before |-> IF last.op = "set_references_dir" THEN last.before
                           ELSE get_references_dir(NoDir, env_dir),
                current |-> get_references_dir(NoDir, env_dir')]
    /\ UNCHANGED <<api, refVars, fileVars, studyVars, loadVars,
                   references_dir, studies_dir, manager_dirs>>

\* utils.reset_references_dir(), called at any time or right after
\* set_references_dir; the client then reads get_current_references_dir()
\* and compares it with what it read before the set
ResetReferencesDir ==
    /\ last.op \in {"none", "set_references_dir"}
    /\ env_dir' = NoDir
    /\ last' = [op |-> "reset_references_dir",
                after_set |-> last.op = "set_references_dir",
                before |-> IF last.op = "set_references_dir" THEN last.before
                           ELSE get_references_dir(NoDir, env_dir),
                current |-> get_references_dir(NoDir, env_dir')]
    /\ UNCHANGED <<api, refVars, fileVars, studyVars, loadVars,
                   references_dir, studies_dir, manager_dirs>>

\* utils.get_current_references_dir()
GetCurrentReferencesDir ==
    /\ last = NoCall
    /\ last' = [op |-> "get_current_references_dir",
                value |-> get_references_dir(NoDir, env_dir)]
    /\ UNCHANGED <<api, refVars, fileVars, studyVars, loadVars, dirVars>>

\* utils.load_references(test_type, references_dir=rd) and the other
\* loaders of utils, with the parameter given or left out: the directory
\* the file is opened in
LoadReferences ==
    \E rd \in {NoDir} \cup CustomDirs :
        /\ last = NoCall
        /\ last' = [op |-> "load_references", references_dir |-> rd,
                    dir |-> get_references_dir(rd, env_dir)]
        /\ UNCHANGED <<api, refVars, fileVars, studyVars, loadVars, dirVars>>

\* a catalog lookup of the LabStudyManager: get_test_reference,
\* check_test_value, get_available_tests_for_biomaterial and
\* StudyResult.add_result all start with _get_biomaterial_manager
GetTestReference ==
    \E bt \in Biomaterials :
        /\ last = NoCall
        /\ managers' = managers \cup {bt}
        /\ manager_dirs' = cached_from(manager_dirs, managers \cup {bt},
                                       references_dir, env_dir)
        /\ last' = [op |-> "get_test_reference", biomaterial_type |-> bt,
                    served_from |-> manager_dirs'[bt]]
        /\ UNCHANGED <<api, refVars, fileVars, study, catalog, result, loadVars,
                       env_dir, references_dir, studies_dir>>

NextDirs ==
    \/ SetReferencesDir
    \/ ResetReferencesDir
    \/ GetCurrentReferencesDir
    \/ LoadReferences
    \/ GetTestReference
    \/ Return

SpecDirs == InitDirs /\ [][NextDirs]_vars

\* ---------------------------------------------------- claims: Reference
Statuses == {"below", "normal", "above"}

\* the last call resolved a range through Reference.get_reference
Resolving == last.op \in {"get_reference", "check_value"}

\* position of the first occurrence of key k in a search order
Pos(order, k) ==
    CHOOSE p \in 1..Len(order) :
        order[p] = k /\ \A q \in 1..(p - 1) : order[q] # k

\* the keys a search order visits
KeysOf(order) == {order[p] : p \in 1..Len(order)}

\* the search order the claims state: [requested sex,] all, male, female
ClaimOrder ==
    (IF last.sex # NoSex THEN <<last.sex>> ELSE <<>>) \o <<"all", "male", "female">>

\* band i of key k lies in [age_min, age_max) around x
Covers(k, i, x) ==
    age_ranges[k][i].age_min <= x /\ x < age_ranges[k][i].age_max

\* some band of key k covers x
KeyCovers(k, x) == \E i \in 1..Len(age_ranges[k]) : Covers(k, i, x)

\* C1: whenever check_value (of Reference or of AgeRange) classifies a
\* value against a range with min <= max, the status is one of the three,
\* "below" exactly when value < min, "above" exactly when value > max and
\* "normal" exactly when min <= value <= max.
C1_Classification ==
    (/\ last.op \in {"check_value", "AgeRange.check_value", "utils.check_value"}
     /\ last.ref.kind \in {"age", "simple"}
     /\ last.ref.min <= last.ref.max)
    => /\ last.status \in Statuses
       /\ (last.status = "below") <=> (last.value < last.ref.min)
       /\ (last.status = "above") <=> (last.value > last.ref.max)
       /\ (last.status = "normal") <=>
              (last.ref.min <= last.value /\ last.value <= last.ref.max)

\* a value on the upper bound of the resolved range was classified
C1_Witness ==
    /\ last.op = "check_value"
    /\ last.ref.kind = "age"
    /\ last.value = last.ref.max
    /\ last.status = "normal"

\* C2: with an age x, get_reference returns band i of key k exactly when
\* the band covers x (age_min <= x < age_max) and no earlier candidate
\* covers x; candidates are ordered by the search order and, within a key,
\* by insertion order.  The dictionary returned carries the band's bounds.
C2_FirstCoveringBand ==
    (Resolving /\ Len(last.age) > 0)
    => LET x == last.age[1]
           order == ClaimOrder
           Earlier(k2, i2, k, i) ==
               \/ Pos(order, k2) < Pos(order, k)
               \/ k2 = k /\ i2 < i
       IN \A k \in SexKeys : \A i \in 1..Len(age_ranges[k]) :
            /\ (last.ref.kind = "age" /\ last.ref.key = k /\ last.ref.idx = i)
               <=> (/\ Covers(k, i, x)
                    /\ \A k2 \in SexKeys : \A i2 \in 1..Len(age_ranges[k2]) :
                          Earlier(k2, i2, k, i) => ~Covers(k2, i2, x))
            /\ (last.ref.kind = "age" /\ last.ref.key = k /\ last.ref.idx = i)
               => /\ last.ref.min = age_ranges[k][i].min
                  /\ last.ref.max = age_ranges[k][i].max
                  /\ last.ref.age_min = age_ranges[k][i].age_min
                  /\ last.ref.age_max = age_ranges[k][i].age_max

\* the second band of a key was returned although the requested sex is
\* not the first default: an earlier band and an earlier key did not cover
C2_Witness ==
    /\ last.op = "get_reference"
    /\ last.sex = "female"
    /\ last.ref.kind = "age"
    /\ last.ref.key = "female"
    /\ last.ref.idx = 2

\* the first key of the search order that has age bands
FirstBanded(order) ==
    LET ps == {p \in 1..Len(order) : Len(age_ranges[order[p]]) > 0}
    IN order[CHOOSE p \in ps : \A q \in ps : p <= q]

\* the first banded key exists and none of its bands covers the age
FirstBandedMisses ==
    /\ Resolving
    /\ Len(last.age) > 0
    /\ \E k \in SexKeys : Len(age_ranges[k]) > 0
    /\ ~KeyCovers(FirstBanded(ClaimOrder), last.age[1])

\* C3 as stated: once the first sex key that has age bands is found and
\* none of its bands covers the age, no band of a later key is tried and
\* the result comes from the simple pass.
C3_StopsAtFirstBandedKey ==
    FirstBandedMisses => last.ref.kind # "age"

\* C3 amended: when the first sex key that has age bands has no band
\* covering the age, the age pass goes on with the later keys of the search
\* order; the result is a band of the first later key that covers the age,
\* and the simple pass is reached only when no key covers it.
C3_ContinuesWithLaterKeys ==
    FirstBandedMisses
    => LET x == last.age[1]
           order == ClaimOrder
       IN /\ (last.ref.kind = "age") <=> (\E k \in KeysOf(order) : KeyCovers(k, x))
          /\ (last.ref.kind = "age")
             => /\ KeyCovers(last.ref.key, x)
                /\ \A k \in KeysOf(order) :
                      Pos(order, k) < Pos(order, last.ref.key) => ~KeyCovers(k, x)

\* the first banded key missed the age and a later key's band was returned
C3_Witness ==
    /\ FirstBandedMisses
    /\ last.ref.kind = "age"

\* C4: with an age, a simple range is returned only when no key of the
\* search order has a band covering the age; a covering band under any key
\* of the search order wins over every simple range, also over a simple
\* range stored under the requested sex.
C4_BandsBeforeSimple ==
    (Resolving /\ Len(last.age) > 0)
    => LET x == last.age[1]
           order == ClaimOrder
       IN /\ (last.ref.kind = "simple")
             => \A k \in KeysOf(order) : ~KeyCovers(k, x)
          /\ (\E k \in KeysOf(order) : KeyCovers(k, x))
             => last.ref.kind = "age"

\* the requested sex has a simple range and a band of another key won
C4_Witness ==
    /\ Resolving
    /\ last.sex # NoSex
    /\ Len(simple_refs[last.sex]) > 0
    /\ last.ref.kind = "age"
    /\ last.ref.key # last.sex

\* the table has an entry keyed "all"
HasAll == Len(age_ranges["all"]) > 0 \/ Len(simple_refs["all"]) > 0

\* C5: on a table with an "all" entry, a call without sex and a call with
\* sex "all" have the same outcome for every age: the same range, or both
\* fail.
C5_NoSexIsAll ==
    (Resolving /\ HasAll /\ last.sex \in {NoSex, "all"})
    => last.ref = get_reference(age_ranges, simple_refs,
                                IF last.sex = NoSex THEN "all" ELSE NoSex,
                                last.age)

\* a call without sex on a table with an "all" entry and a male entry that
\* would also have answered
C5_Witness ==
    /\ Resolving
    /\ last.sex = NoSex
    /\ HasAll
    /\ Len(simple_refs["male"]) > 0
    /\ last.ref.kind = "simple"
    /\ last.ref.key = "all"

\* C6: get_reference fails exactly when no key of the search order has a
\* band covering the given age (or no age is given) and no key of the
\* search order has a simple range; otherwise it returns a range.
C6_FailsIffNoMatch ==
    Resolving
    => LET order == ClaimOrder
           banded == /\ Len(last.age) > 0
                     /\ \E k \in KeysOf(order) : KeyCovers(k, last.age[1])
           simple == \E k \in KeysOf(order) : Len(simple_refs[k]) > 0
       IN /\ (last.ref.kind = "ValueError") <=> (~banded /\ ~simple)
          /\ last.ref.kind \in {"ValueError", "age", "simple"}

\* a table holding only male bands, asked for sex "male" with an age
\* outside every band, failed
C6_Witness ==
    /\ last.op = "get_reference"
    /\ last.sex = "male"
    /\ Len(last.age) > 0
    /\ Len(age_ranges["male"]) > 0
    /\ Entries(age_ranges, simple_refs) = Len(age_ranges["male"])
    /\ last.ref.kind = "ValueError"


\* ------------------------------------------------------- claims: studies
\* the biomaterial is one of the study's declared biomaterials
Eligible(bt) == \E i \in 1..Len(study.biomaterials) : study.biomaterials[i] = bt

\* C7: add_result fails with the test-not-in-study error for every name
\* that is none of the study's tests, whether or not the catalog of the
\* bound biomaterial defines the test; check_study_values fails the same
\* way when any submitted name is none of the study's tests.
C7_NotInStudyFails ==
    /\ (last.op = "add_result" /\ last.name \notin study.tests)
       => last.outcome = "TestNotInStudy"
    /\ (/\ last.op = "check_study_values"
        /\ last.study_name = StudyName
        /\ \E i \in 1..Len(last.items) : last.items[i].name \notin study.tests)
       => last.outcome = "TestNotInStudy"

\* a test that the bound biomaterial's catalog defines was refused because
\* the study does not declare it
C7_Witness ==
    /\ last.op = "add_result"
    /\ last.name \notin study.tests
    /\ catalog[result.biomaterial_type][last.name] # Missing
    /\ last.outcome = "TestNotInStudy"

\* C8: create_study_result with a biomaterial that is none of the study's
\* declared biomaterials fails with the biomaterial-not-available error and
\* creates no StudyResult: the client holds what it held before.
C8_IneligibleBiomaterialFails ==
    (/\ last.op = "create_study_result"
     /\ last.study_name = StudyName
     /\ last.biomaterial_type # NoBiomaterial
     /\ ~Eligible(last.biomaterial_type))
    => /\ last.outcome = "BiomaterialNotAvailable"
       /\ result = last.before

\* a study that declares biomaterials refused one it does not declare
C8_Witness ==
    /\ last.op = "create_study_result"
    /\ last.biomaterial_type # NoBiomaterial
    /\ Len(study.biomaterials) > 0
    /\ ~Eligible(last.biomaterial_type)
    /\ last.outcome = "BiomaterialNotAvailable"

\* C9: when add_results fails because a submitted name is not part of the
\* study, the StudyResult holds exactly the tests and values it held
\* before the call.
C9_AddResultsAtomic ==
    (last.op = "add_results" /\ last.outcome = "TestNotInStudy")
    => result.tests = last.before.tests

\* the preferred biomaterial as the claims state it: the declared one,
\* else the first declared biomaterial, else the empty string
ClaimPreferred ==
    IF Len(study.preferred) > 0 THEN study.preferred[1]
    ELSE IF Len(study.biomaterials) > 0 THEN study.biomaterials[1] ELSE ""

\* the last call created a result for the loaded study without naming a
\* biomaterial
CreatedByDefault ==
    /\ last.op = "create_study_result"
    /\ last.study_name = StudyName
    /\ last.biomaterial_type = NoBiomaterial

\* C10 as stated: with the biomaterial omitted, create_study_result
\* returns, for every loaded study, a StudyResult bound to the preferred
\* biomaterial.
C10_OmittedReturnsPreferred ==
    CreatedByDefault
    => /\ last.outcome = "ok"
       /\ result.exists
       /\ result.biomaterial_type = ClaimPreferred

\* C10 amended: with the biomaterial omitted, create_study_result returns
\* a StudyResult bound to the preferred biomaterial when the preferred
\* biomaterial is one of the study's declared biomaterials; otherwise it
\* fails with the biomaterial-not-available error and creates nothing.
C10_OmittedUsesEligiblePreferred ==
    CreatedByDefault
    => IF Eligible(ClaimPreferred)
       THEN /\ last.outcome = "ok"
            /\ result.exists
            /\ result.biomaterial_type = ClaimPreferred
            /\ \A t \in TestNames : result.tests[t] = <<>>
       ELSE /\ last.outcome = "BiomaterialNotAvailable"
            /\ result = last.before

\* a result was bound to a declared preferred biomaterial that is not the
\* first of the study's biomaterials
C10_Witness ==
    /\ CreatedByDefault
    /\ last.outcome = "ok"
    /\ Len(study.preferred) > 0
    /\ study.biomaterials[1] # study.preferred[1]
    /\ result.biomaterial_type = study.preferred[1]


\* the names of the tests a StudyResult holds
Held(res) == {t \in TestNames : res.tests[t] # <<>>}

\* C11: every StudyResult that exists is bound to a biomaterial of its
\* study's declared biomaterials list, however it was created (biomaterial
\* given, defaulted, or the constructor called directly) and whatever
\* add_result, add_results and set_patient_info calls followed.
C11_BoundBiomaterialEligible ==
    result.exists => Eligible(result.biomaterial_type)

\* a result created without naming a biomaterial, populated, and then
\* given new patient information
C11_Witness ==
    /\ last.op = "set_patient_info"
    /\ Held(result) # {}
    /\ Len(study.preferred) > 0
    /\ result.biomaterial_type = study.preferred[1]
    /\ Eligible(result.biomaterial_type)

\* C12: after any sequence of add_result and add_results calls, successful
\* or failing, every test a StudyResult holds is one of the tests its study
\* declares.
C12_HeldTestsInStudy ==
    result.exists => Held(result) \subseteq study.tests

\* an add_results call that failed on a name outside the study after it
\* had stored an earlier entry
C12_Witness ==
    /\ last.op = "add_results"
    /\ last.outcome = "TestNotInStudy"
    /\ Held(result) # Held(last.before)
    /\ Held(result) \subseteq study.tests

\* the last call was an add_result that succeeded
Added == last.op = "add_result" /\ last.outcome = "ok"

\* C14 as stated: every successful add_result call increases the number of
\* held tests by exactly one.
C14_EveryAddGrowsByOne ==
    Added => Cardinality(Held(result)) = Cardinality(Held(last.before)) + 1

\* C14 amended: a successful add_result of a name the StudyResult does not
\* hold increases the number of held tests by exactly one; a successful
\* add_result of a name it holds replaces that test's value and leaves the
\* number unchanged; the other tests are as they were.
C14_AddGrowsOrReplaces ==
    Added =>
        /\ Held(result) = Held(last.before) \cup {last.name}
        /\ Cardinality(Held(result)) =
               IF last.name \in Held(last.before)
               THEN Cardinality(Held(last.before))
               ELSE Cardinality(Held(last.before)) + 1
        /\ result.tests[last.name][1].value = last.value
        /\ \A t \in TestNames \ {last.name} :
               result.tests[t] = last.before.tests[t]

\* a held test was added again with another value
C14_Witness ==
    /\ Added
    /\ last.name \in Held(last.before)
    /\ last.before.tests[last.name][1].value # last.value
    /\ Cardinality(Held(result)) = Cardinality(Held(last.before))


\* C13: get_summary returns total equal to the number of held tests, and
\* normal, below and above equal to the numbers of held tests of that
\* status, for every StudyResult.
C13_SummaryCounts ==
    last.op = "get_summary"
    => /\ last.outcome = "ok"
       /\ last.summary.total = Cardinality(Held(result))
       /\ last.summary.normal + last.summary.below + last.summary.above
              = last.summary.total

\* whenever get_summary does return, its counts are those of the held tests
SummaryCountsWhenReturned ==
    (last.op = "get_summary" /\ last.outcome = "ok")
    => /\ last.summary.total = Cardinality(Held(result))
       /\ last.summary.normal + last.summary.below + last.summary.above
              = last.summary.total
       /\ last.summary.normal =
              Cardinality({t \in Held(result) :
                              /\ result.tests[t][1].value >= 0
                              /\ result.tests[t][1].value <= 2})


\* C15: get_preferred_biomaterial returns the declared preferred
\* biomaterial when one is declared, otherwise the first of the study's
\* biomaterials, and the empty string when there is none; the functional
\* and the object version return the same for every study definition.
C15_PreferredBiomaterial ==
    (/\ last.op \in {"get_preferred_biomaterial",
                     "utils.get_preferred_biomaterial"}
     /\ last.study_name = StudyName)
    => /\ last.outcome = "ok"
       /\ last.value = ClaimPreferred

\* the functional version fell back to the first declared biomaterial
C15_Witness ==
    /\ last.op = "utils.get_preferred_biomaterial"
    /\ last.outcome = "ok"
    /\ Len(study.preferred) = 0
    /\ Len(study.biomaterials) > 0
    /\ last.value = study.biomaterials[1]


\* ------------------------------------------- claims: validate and load
\* the last call validated a file whose root is a mapping and whose _info,
\* if it has one, is a mapping
ValidatedWellFormedRoot ==
    /\ last.op = "validate_references_structure"
    /\ raw.root = "dict"
    /\ \A i \in 1..Len(raw.keys) : raw.keys[i] = "_info" => raw.info.t = "dict"

\* the test's value is directly a simple range: min, max and unit, and no
\* other key
DirectRange(r) ==
    /\ r.t = "mapping"
    /\ \A k \in SubKeys : r.sub[k] = (IF k \in {"min", "max", "unit"}
                                      THEN Scalar ELSE Absent)

\* the test's value is a per-sex mapping or a complete age-band array
WellFormedOther(r) ==
    \/ r = Absent
    \/ r.t = "list" /\ \A i \in 1..Len(r.items) :
           {"min", "max", "unit", "age_min", "age_max"} \subseteq r.items[i]
    \/ r.t = "mapping" /\ \A k \in SubKeys :
           \/ r.sub[k] = Absent
           \/ /\ r.sub[k].t = "list"
              /\ \A i \in 1..Len(r.sub[k].items) :
                    {"min", "max", "unit", "age_min", "age_max"}
                        \subseteq r.sub[k].items[i]

\* C16: a file whose test key maps directly to a simple range with min, max
\* and unit passes validate_references_structure.
C16_DirectRangeAccepted ==
    (/\ ValidatedWellFormedRoot
     /\ DirectRange(raw.tests["hemoglobin"])
     /\ WellFormedOther(raw.tests["ph"]))
    => last.outcome = "ok"

\* the value a sub-key of a per-sex mapping must not have: a list with an
\* element lacking a key of a band, a mapping lacking a key of a range, or
\* anything that is neither list nor mapping
BadSubValue(v) ==
    \/ /\ v.t = "list"
       /\ \E i \in 1..Len(v.items) :
             \E k \in {"min", "max", "unit", "age_min", "age_max"} :
                 k \notin v.items[i]
    \/ v.t = "dict" /\ \E k \in {"min", "max", "unit"} : k \notin v.keys
    \/ v.t = "scalar"

\* every test of the file is a mapping
OnlyMappings ==
    \A i \in 1..Len(raw.keys) :
        raw.keys[i] # "_info" => raw.tests[raw.keys[i]].t = "mapping"

\* a test mapping of the file breaks a rule of per-sex mappings
SomeBadSubValue ==
    \E i \in 1..Len(raw.keys) :
        /\ raw.keys[i] # "_info"
        /\ \E k \in SubKeys \ {"name_ru", "test_code"} :
              BadSubValue(raw.tests[raw.keys[i]].sub[k])

\* C17: validate_references_structure raises ValueError when the root is
\* no mapping, when _info is present and no mapping, and when a sub-key of
\* a per-sex test mapping other than name_ru and test_code has a list with
\* an element lacking a band key, a mapping lacking a range key, or a value
\* that is neither; a file of per-sex mappings breaking none of the rules
\* is accepted.
C17_ValidatorRules ==
    /\ (last.op = "validate_references_structure" /\ raw.root # "dict")
       => last.outcome = "ValueError"
    /\ (/\ last.op = "validate_references_structure"
        /\ raw.root = "dict"
        /\ \E i \in 1..Len(raw.keys) : raw.keys[i] = "_info" /\ raw.info.t # "dict")
       => last.outcome = "ValueError"
    /\ (ValidatedWellFormedRoot /\ OnlyMappings)
       => (last.outcome = "ValueError" <=> SomeBadSubValue)
    /\ (ValidatedWellFormedRoot /\ OnlyMappings)
       => (last.outcome = "ok" <=> ~SomeBadSubValue)

\* a file was rejected for the second band of a sex key alone
C17_Witness ==
    /\ ValidatedWellFormedRoot
    /\ OnlyMappings
    /\ last.outcome = "ValueError"
    /\ LET m == raw.tests["hemoglobin"].sub
       IN /\ m["male"].t = "list"
          /\ Len(m["male"].items) = 2
          /\ "age_max" \notin m["male"].items[2]
          /\ \A k \in SubKeys \ {"male"} : m[k] = Absent

\* C18: for every file whose root is a mapping, constructing a manager
\* either fails with the invalid-structure ValueError and leaves no manager,
\* or succeeds with one Reference per top-level key other than _info; every
\* file the validator accepts loads.
C18_LoadAllOrNothing ==
    (last.op = "BiomaterialManager" /\ raw.root = "dict")
    => /\ last.outcome \in {"ok", "ValueError"}
       /\ last.outcome = "ok" => manager.exists
       /\ validate_references_structure(raw) = "ok" => last.outcome = "ok"

\* position of key k in the file
KeyPos(k) == CHOOSE i \in 1..Len(raw.keys) : raw.keys[i] = k

\* C19: list_tests of a manager loaded from a file is the sequence of the
\* file's top-level keys without _info, in the order of the file.
C19_ListTestsIsKeyOrder ==
    last.op = "list_tests"
    => /\ \A i \in 1..Len(last.value) :
             /\ last.value[i] # "_info"
             /\ \E j \in 1..Len(raw.keys) : raw.keys[j] = last.value[i]
       /\ \A j \in 1..Len(raw.keys) :
             raw.keys[j] # "_info"
             => \E i \in 1..Len(last.value) : last.value[i] = raw.keys[j]
       /\ \A i, j \in 1..Len(last.value) :
             i < j => KeyPos(last.value[i]) < KeyPos(last.value[j])

\* a file with _info between two tests, and tests not in alphabetical order
C19_Witness ==
    /\ last.op = "list_tests"
    /\ raw.keys \in {<<"hemoglobin", "_info", "ph">>, <<"ph", "hemoglobin">>}
    /\ Len(last.value) = 2
    /\ last.value[1] = raw.keys[1]


\* ------------------------------------------------ claims: directories
\* C20: after any interleaving of catalog lookups with set_references_dir
\* and reset_references_dir calls, every cached BiomaterialManager was
\* loaded from the directory the manager's study definitions were loaded
\* from.
C20_CacheOneDirectory ==
    \A b \in Biomaterials :
        manager_dirs[b] # NoDir => manager_dirs[b] = studies_dir

\* ------------------------------------------- claims: the two APIs compared
\* the statuses a classification returns
Failed(outcome) == outcome \notin {"below", "normal", "above"}

\* C21: on every reference file and for every value, sex and age,
\* utils.check_value and ReferenceManager.create_test(...).status end the
\* same way: the same status, or both raise
C21_FunctionalEqualsOop ==
    last # NoCall /\ last.op = "utils.check_value" =>
        LET oop == create_test_status(doc, last.value, last.sex, last.age)
        IN IF Failed(last.status) THEN Failed(oop) ELSE oop = last.status

\* the elements of a sequence
KeysOfSeq(seq) == {seq[i] : i \in 1..Len(seq)}

\* C22: utils.check_value with a name->value mapping returns a mapping with
\* exactly the submitted names, each with the status the single-value
\* check_value gives that name and value for the same sex and age; the
\* call fails when the single check of any entry fails
C22_BatchIsPointwise ==
    last # NoCall /\ last.op = "utils.check_values" =>
        LET single(i) == utils_check_value(catalog[last.test_type][last.items[i].name],
                                           last.items[i].value, last.sex, last.age)
            n == Len(last.items)
        IN IF \E i \in 1..n : Failed(single(i))
           THEN last.outcome # "ok"
           ELSE /\ last.outcome = "ok"
                /\ {e.name : e \in KeysOfSeq(last.statuses)}
                       = {e.name : e \in KeysOfSeq(last.items)}
                /\ Len(last.statuses) = n
                /\ \A i \in 1..n :
                       \E j \in 1..n :
                           /\ last.statuses[j].name = last.items[i].name
                           /\ last.statuses[j].status = single(i)

C22_Witness ==
    /\ last # NoCall /\ last.op = "utils.check_values"
    /\ last.outcome = "ok"
    /\ Len(last.items) = 2
    /\ \E i, j \in 1..2 : /\ last.statuses[i].status = "below"
                          /\ last.statuses[j].status = "above"

C24_Precedence ==
    /\ last.op = "load_references" =>
          last.dir = IF last.references_dir # "<none>" THEN last.references_dir
                     ELSE IF env_dir # "<none>" THEN env_dir
                     ELSE "lab_ref/references"
    /\ last.op = "set_references_dir" => env_dir = last.path
    /\ last.op = "get_current_references_dir" =>
          last.value = IF env_dir # "<none>" THEN env_dir ELSE "lab_ref/references"

C24_Witness ==
    /\ last.op = "load_references"
    /\ last.references_dir # "<none>"
    /\ env_dir # "<none>"
    /\ env_dir # last.references_dir
    /\ last.dir = last.references_dir

\* ---------------------------------------------- claims: Reference tables
\* C25: in every Reference built by from_dict, add_age_range and
\* add_simple_reference, no sex key has both age bands and a simple range
C25_BandedOrSimple ==
    \A k \in SexKeys : ~(Len(age_ranges[k]) > 0 /\ Len(simple_refs[k]) > 0)

\* ------------------------------------------------- claims: patient info
\* C26: after any add_result, add_results and set_patient_info calls, every
\* Test a StudyResult holds has the sex and the age of the result, so its
\* status is computed for the result's current patient
C26_TestsFollowPatient ==
    result.exists =>
        \A t \in TestNames :
            result.tests[t] # <<>> =>
                /\ result.tests[t][1].sex = result.sex
                /\ result.tests[t][1].age = result.age

C26_Witness ==
    /\ last.op = "set_patient_info"
    /\ \E t \in TestNames : result.tests[t] # <<>>
    /\ result.sex # last.before.sex
    /\ result.age # last.before.age

\* ----------------------------------------------------- claims: test keys
\* C27: utils.get_test_keys returns the test identifiers of the file, the
\* top-level keys in the order of the file without _info, which is the
\* list list_tests gives for a manager of the same file
C27_TestKeysAreListTests ==
    last.op = "utils.get_test_keys" /\ last.outcome = "ok" =>
        /\ \A i \in 1..Len(last.value) : last.value[i] # "_info"
        /\ load_references_outcome(raw).outcome = "ok" =>
              last.value = load_references_outcome(raw).manager.tests

\* ------------------------------------------- claims: StudyResult.add_result
\* C28: every Test a successful add_result leaves in the StudyResult has a
\* status below, normal or above for the result's sex and age (a test with
\* no matching range is never stored), so get_summary cannot fail
C28_StoredTestsHaveStatus ==
    (last.op = "add_result" /\ last.outcome = "ok") =>
        /\ \A t \in TestNames :
              result.tests[t] # <<>> =>
                  Test_status(catalog, result.biomaterial_type, t,
                              result.tests[t][1]) \in {"below", "normal", "above"}
        /\ get_summary(catalog, result).outcome = "ok"

\* C29: an add_result that fails, because the test is not part of the study
\* or because the catalog of the bound biomaterial has no table for it,
\* leaves the StudyResult as it was: the same held tests with the same
\* values, the same biomaterial, sex and age
C29_FailedAddChangesNothing ==
    (last.op = "add_result" /\ last.outcome # "ok") =>
        /\ last.outcome \in {"TestNotInStudy", "TestNotFound"}
        /\ result.exists
        /\ result.biomaterial_type = last.before.biomaterial_type
        /\ result.sex = last.before.sex
        /\ result.age = last.before.age
        /\ \A t \in TestNames : result.tests[t] = last.before.tests[t]

\* a result that holds a test refuses another one its catalog lacks
C29_Witness ==
    /\ last.op = "add_result"
    /\ last.outcome = "TestNotFound"
    /\ \E t \in TestNames : last.before.tests[t] # <<>>

\* ------------------------------------- claims: the two study evaluations
\* what create_study_result(...).add_results(values) does with the
\* arguments of the last check_study_values call
OopStudy ==
    LET c == create_study_result(study, last.study_name, last.biomaterial_type,
                                 last.sex, last.age)
    IN IF c.outcome # "ok" THEN [outcome |-> c.outcome, result |-> NoResult]
       ELSE LET a == add_results(study, catalog, c.result, {}, last.items, 1)
            IN [outcome |-> a.outcome, result |-> a.result]

\* C30: utils.check_study_values returns statuses exactly when
\* create_study_result(...).add_results(values) succeeds on the same study,
\* biomaterial, sex, age and values, each test with the status the held
\* Test has, and fails whenever the object path fails
C30_StudyApisAgree ==
    last.op = "check_study_values" =>
        /\ (last.outcome = "ok") <=> (OopStudy.outcome = "ok")
        /\ last.outcome = "ok" =>
              \A i \in 1..Len(last.statuses) :
                  last.statuses[i].status =
                      Test_status(catalog, OopStudy.result.biomaterial_type,
                                  last.statuses[i].name,
                                  OopStudy.result.tests[last.statuses[i].name][1])

=============================================================================
